---- MODULE Spec2Model ----
(***************************************************************************)
(* Med Mirror: the ImageUpload capture/upload component, its localStorage  *)
(* cache and the /api/face-aging proxy, as a state machine.                *)
(*                                                                         *)
(* One component instance is mounted at a time.  Every asynchronous        *)
(* operation the handlers start (FileReader decode, getUserMedia,          *)
(* canvas.toBlob, fetch) is a pending item that completes in a later       *)
(* step; items started by an instance that has been unmounted stay         *)
(* pending (nothing cancels them) with own = FALSE: React ignores their    *)
(* setState calls, their other effects (localStorage, the upload callback, *)
(* alert, MediaStream tracks) still happen.                                *)
(*                                                                         *)
(* State updates made after an await are batched (React 18, which the      *)
(* "use client" directive implies): the handler's continuation runs to its *)
(* next await against the DOM of the previous render, then the component   *)
(* re-renders and its effects run.  An action is one such run.             *)
(***************************************************************************)
EXTENDS Integers, Sequences, FiniteSets, Bags, TLC

\* ------------------------------------------------------------- bounds
MaxPending == 2      \* asynchronous operations pending at a time
MaxVisits == 2        \* scheduleVisit calls outstanding at a time
MaxStreams == 2      \* MediaStream identities

\* ------------------------------------------------------------- values
Null == [kind |-> "null"]
EmptyString == [kind |-> "string", chars |-> <<>>]
NoStream == 0
NoAlert == "none"

twentyFourHours == 24 * 60 * 60 * 1000
T0 == 1000
Instants ==
    {T0, T0 + twentyFourHours - 1, T0 + twentyFourHours, T0 + twentyFourHours + 1}

File(name, type, bytes) ==
    [kind |-> "file", name |-> name, type |-> type, bytes |-> bytes]

ImageFiles == {File("a.png", "image/png", "A")}
OtherFiles == {File("notes.txt", "text/plain", "T")}
Files == ImageFiles \cup OtherFiles

\* new File([blob], "camera-photo.jpg", {type: "image/jpeg"})
CameraPhoto == File("camera-photo.jpg", "image/jpeg", "frame")

\* file.type.startsWith("image/")
IsImageType(type) == type \in {"image/png", "image/jpeg"}

\* FileReader.readAsDataURL: "data:<type>;base64,<base64 of the bytes>"
ReadAsDataURL(file) ==
    [kind |-> "dataurl", mime |-> file.type, b64 |-> <<"b64", file.bytes>>]

\* ------------------------------------------------------------- Date.now().toString() / parseInt
RECURSIVE Digits(_)
Digits(n) == IF n < 10 THEN <<n>> ELSE Append(Digits(n \div 10), n % 10)

\* a timestamp in seconds instead of milliseconds
toStringSeconds(n) == Digits(n \div 1000)

toString(n) == Digits(n)

RECURSIVE ParseDigits(_, _)
ParseDigits(s, acc) ==
    IF s = <<>> THEN acc ELSE ParseDigits(Tail(s), acc * 10 + Head(s))

ParseInt(s) == ParseDigits(s, 0)

\* ------------------------------------------------------------- state
VARIABLES
    mounted,            \* a component instance is mounted
    uploadedImage,      \* useState<string | null>
    uploadedFile,       \* useState<File | null>
    isLoading,
    showCamera,
    stream,             \* useState<MediaStream | null>
    faceAgingResult,    \* useState<string | null>
    isProcessingAging,
    videoReady,         \* the <video> element has non-zero videoWidth/videoHeight
    dialogOpen,         \* the file chooser opened by fileInputRef.click() is open
    metaWait,           \* handleCameraClick awaits the video's onloadedmetadata
    localStorage,       \* key -> value, for the keys present
    now,                \* Date.now()
    liveTracks,         \* streams whose tracks have not been stopped
    reads,              \* pending FileReader.readAsDataURL
    cameraReqs,         \* pending getUserMedia
    blobs,              \* pending canvas.toBlob
    fetches,            \* pending fetch("/api/face-aging")
    alertMsg,           \* alert() raised by the last step
    notified,           \* onImageUpload calls made by the last step
    routeRequest,       \* route handler: the request a client sent to it
    routeResponse,      \* route handler: its NextResponse, Null until it returns
    routeEarlier,       \* history: the call the route handled before this one
    isVisitLoading,     \* useVisitAPI: isLoading
    improvementData,    \* useVisitAPI: useState<VisitData | null>
    visitError,         \* useVisitAPI: error
    visits,             \* pending fetch(".../visit-crew")
    homeMounted,        \* the Home page is mounted
    showBuildProcess,   \* Home: useState(false)
    currentStep,        \* BuildProcess: useState(0)
    completedSteps,     \* BuildProcess: useState<number[]>([])
    isComplete,         \* BuildProcess: useState(false)
    effectPending,      \* a render with a new currentStep is committed, its
                        \* effect has not run yet
    timer,              \* the pending setTimeout: the currentStep of its closure
    onCompleteCalls     \* calls of onComplete made by the mounted BuildProcess

vars == <<mounted, uploadedImage, uploadedFile, isLoading, showCamera, stream,
          faceAgingResult, isProcessingAging, videoReady, dialogOpen,
          metaWait, localStorage, now, liveTracks, reads, cameraReqs, blobs,
          fetches, alertMsg, notified, routeRequest, routeResponse,
          routeEarlier, isVisitLoading, improvementData, visitError, visits,
          homeMounted, showBuildProcess, currentStep, completedSteps,
          isComplete, effectPending, timer, onCompleteCalls>>

compState == <<uploadedImage, uploadedFile, isLoading, showCamera, stream,
               faceAgingResult, isProcessingAging>>
pendingOps == <<reads, cameraReqs, blobs, fetches>>
domState == <<videoReady, dialogOpen, metaWait>>
componentVars == <<mounted, compState, domState, localStorage, now, liveTracks,
                   pendingOps, alertMsg, notified>>

\* the state of the repository's other programs, which the component's steps
\* leave alone
routeVars == <<routeRequest, routeResponse, routeEarlier>>
visitVars == <<isVisitLoading, improvementData, visitError, visits>>
buildVars == <<homeMounted, showBuildProcess, currentStep, completedSteps,
               isComplete, effectPending, timer, onCompleteCalls>>
otherVars == <<routeVars, visitVars, buildVars>>

\* ------------------------------------------------------------- localStorage
getItem(key) == IF key \in DOMAIN localStorage THEN localStorage[key] ELSE Null

setItem(ls, key, value) ==
    [k \in DOMAIN ls \cup {key} |-> IF k = key THEN value ELSE ls[k]]

removeItem(ls, key) == [k \in DOMAIN ls \ {key} |-> ls[k]]

\* ------------------------------------------------------------- pending operations
Pending(bag) == BagToSet(bag)

\* unmounting cancels nothing: the instance's operations stay pending
Orphaned(bag) ==
    LET S == {[x EXCEPT !.own = FALSE] : x \in BagToSet(bag)}
    IN  [y \in S |-> CopiesIn(y, bag) + CopiesIn([y EXCEPT !.own = TRUE], bag)]

TotalPending ==
    BagCardinality(reads) + BagCardinality(cameraReqs)
        + BagCardinality(blobs) + BagCardinality(fetches)

Add(bag, x) == bag (+) SetToBag({x})
Remove(bag, x) == bag (-) SetToBag({x})

\* setState of an unmounted instance is ignored
Set(own, new, old) == IF own /\ mounted THEN new ELSE old

\* ------------------------------------------------------------- render
View ==
    IF ~mounted THEN "none"
    ELSE IF showCamera THEN "camera"
    ELSE IF uploadedImage # Null THEN "image"
    ELSE "idle"

\* the <img> always showing the upload
DisplayedUploadOnly == IF View # "image" THEN Null ELSE uploadedImage

\* <img src={faceAgingResult || uploadedImage}>
DisplayedImage ==
    IF View # "image" THEN Null
    ELSE IF faceAgingResult # Null THEN faceAgingResult ELSE uploadedImage

\* the button without its isProcessingAging guard
FaceAgingButtonNoPendingGuard == View = "image" /\ uploadedFile # Null

\* disabled={isProcessingAging || !uploadedFile}
FaceAgingButtonEnabled ==
    View = "image" /\ ~isProcessingAging /\ uploadedFile # Null

\* disabled={isLoading}
UploadButtonsEnabled == View = "idle" /\ ~isLoading

Quiet == alertMsg' = NoAlert /\ notified' = <<>>

\* ------------------------------------------------------------- Init
InitComponent ==
    /\ mounted = FALSE
    /\ uploadedImage = Null
    /\ uploadedFile = Null
    /\ isLoading = FALSE
    /\ showCamera = FALSE
    /\ stream = NoStream
    /\ faceAgingResult = Null
    /\ isProcessingAging = FALSE
    /\ videoReady = FALSE
    /\ dialogOpen = FALSE
    /\ metaWait = FALSE
    /\ localStorage = <<>>
    /\ now = T0
    /\ liveTracks = {}
    /\ reads = EmptyBag
    /\ cameraReqs = EmptyBag
    /\ blobs = EmptyBag
    /\ fetches = EmptyBag
    /\ alertMsg = NoAlert
    /\ notified = <<>>

\* useVisitAPI's three useState calls
InitVisit ==
    /\ isVisitLoading = FALSE
    /\ improvementData = Null
    /\ visitError = Null
    /\ visits = EmptyBag

\* no pending timeout
NoTimer == -1

\* the Home page as it is first rendered, with the state BuildProcess gets
\* from its useState calls when it is mounted
InitBuild ==
    /\ homeMounted = TRUE
    /\ showBuildProcess = FALSE
    /\ currentStep = 0
    /\ completedSteps = <<>>
    /\ isComplete = FALSE
    /\ effectPending = FALSE
    /\ timer = NoTimer
    /\ onCompleteCalls = 0

Init ==
    /\ InitComponent
    /\ routeRequest = Null
    /\ routeResponse = Null
    /\ routeEarlier = Null
    /\ InitVisit
    /\ InitBuild

\* ------------------------------------------------------------- mount / unmount
\* useEffect(() => {...}, []): load the cached image on mount.
\* cachedImage && timestamp: getItem gives null for an absent key, and the
\* strings the component stores are never empty.
\* the age test with <= in place of <
CacheFreshInclusive ==
    /\ "cachedImage" \in DOMAIN localStorage
    /\ "cachedImageTimestamp" \in DOMAIN localStorage
    /\ now - ParseInt(getItem("cachedImageTimestamp")) <= twentyFourHours

CacheFresh ==
    /\ "cachedImage" \in DOMAIN localStorage
    /\ "cachedImageTimestamp" \in DOMAIN localStorage
    /\ now - ParseInt(getItem("cachedImageTimestamp")) < twentyFourHours

CacheExpired ==
    /\ "cachedImage" \in DOMAIN localStorage
    /\ "cachedImageTimestamp" \in DOMAIN localStorage
    /\ ~(now - ParseInt(getItem("cachedImageTimestamp")) < twentyFourHours)

\* what the effect surfaces from the cache
CacheRead == IF CacheFresh THEN getItem("cachedImage") ELSE Null

\* the effect without its onImageUpload call
RestoreEffectNoCallback ==
    /\ uploadedImage' = CacheRead
    /\ notified' = <<>>
    /\ localStorage' =
         IF CacheExpired
         THEN removeItem(removeItem(localStorage, "cachedImage"),
                         "cachedImageTimestamp")
         ELSE localStorage

RestoreEffect ==
    /\ uploadedImage' = CacheRead
    /\ notified' = IF CacheFresh THEN <<CacheRead>> ELSE <<>>
    /\ localStorage' =
         IF CacheExpired
         THEN removeItem(removeItem(localStorage, "cachedImage"),
                         "cachedImageTimestamp")
         ELSE localStorage

FreshInstance ==
    /\ mounted' = TRUE
    /\ uploadedFile' = Null
    /\ isLoading' = FALSE
    /\ showCamera' = FALSE
    /\ stream' = NoStream
    /\ faceAgingResult' = Null
    /\ isProcessingAging' = FALSE
    /\ videoReady' = FALSE
    /\ dialogOpen' = FALSE
    /\ metaWait' = FALSE
    /\ alertMsg' = NoAlert

\* the component is mounted again in the same page (client-side navigation)
Mount ==
    /\ ~mounted
    /\ FreshInstance
    /\ RestoreEffect
    /\ UNCHANGED <<now, liveTracks, pendingOps>>
    /\ UNCHANGED otherVars

\* useEffect(() => () => { if (stream) stream.getTracks().forEach(stop) }, [stream])
\* is the only cleanup; pending operations are not cancelled.  The instance's
\* state goes with it.
Unmount ==
    /\ mounted
    /\ mounted' = FALSE
    /\ liveTracks' = liveTracks \ {stream}
    /\ uploadedImage' = Null
    /\ uploadedFile' = Null
    /\ isLoading' = FALSE
    /\ showCamera' = FALSE
    /\ stream' = NoStream
    /\ faceAgingResult' = Null
    /\ isProcessingAging' = FALSE
    /\ videoReady' = FALSE
    /\ dialogOpen' = FALSE
    /\ metaWait' = FALSE
    /\ reads' = Orphaned(reads)
    /\ cameraReqs' = Orphaned(cameraReqs)
    /\ blobs' = Orphaned(blobs)
    /\ fetches' = Orphaned(fetches)
    /\ Quiet
    /\ UNCHANGED <<localStorage, now>>
    /\ UNCHANGED otherVars

\* the page is loaded again: the old page's streams and pending operations
\* end with it, localStorage stays
Reload ==
    /\ FreshInstance
    /\ RestoreEffect
    /\ liveTracks' = {}
    /\ reads' = EmptyBag
    /\ cameraReqs' = EmptyBag
    /\ blobs' = EmptyBag
    /\ fetches' = EmptyBag
    /\ UNCHANGED <<now>>
    /\ UNCHANGED otherVars

Tick ==
    /\ \E t \in Instants : t > now /\ now' = t
    /\ Quiet
    /\ UNCHANGED <<mounted, compState, domState, localStorage, liveTracks,
                   pendingOps>>
    /\ UNCHANGED otherVars

\* ------------------------------------------------------------- file selection
\* handleUploadClick: fileInputRef.current?.click()
handleUploadClick ==
    /\ UploadButtonsEnabled
    /\ ~dialogOpen
    /\ dialogOpen' = TRUE
    /\ Quiet
    /\ UNCHANGED <<mounted, compState, videoReady, metaWait, localStorage,
                   now, liveTracks, pendingOps>>
    /\ UNCHANGED otherVars

\* handleFileSelect without its file.type check
handleFileSelectNoTypeCheck(file, own) ==
    /\ isLoading' = Set(own, TRUE, isLoading)
    /\ reads' = Add(reads, [file |-> file, own |-> own])
    /\ alertMsg' = NoAlert

\* handleFileSelect up to reader.readAsDataURL(file)
handleFileSelect(file, own) ==
    IF ~IsImageType(file.type)
    THEN /\ alertMsg' = "Please select an image file"
         /\ UNCHANGED <<isLoading, reads>>
    ELSE /\ isLoading' = Set(own, TRUE, isLoading)
         /\ reads' = Add(reads, [file |-> file, own |-> own])
         /\ alertMsg' = NoAlert

\* handleFileChange: the chooser closes with a file, or without one
handleFileChange ==
    /\ mounted
    /\ dialogOpen
    /\ dialogOpen' = FALSE
    /\ notified' = <<>>
    /\ \/ \E file \in Files :
            /\ IsImageType(file.type) => TotalPending < MaxPending
            /\ handleFileSelect(file, TRUE)
       \/ /\ alertMsg' = NoAlert
          /\ UNCHANGED <<isLoading, reads>>
    /\ UNCHANGED <<mounted, uploadedImage, uploadedFile, showCamera, stream,
                   faceAgingResult, isProcessingAging, videoReady, metaWait,
                   localStorage, now, liveTracks, cameraReqs, blobs,
                   fetches>>
    /\ UNCHANGED otherVars

\* reader.onload without the call of onImageUpload
readerOnloadNoCallback(r) ==
        LET imageUrl == ReadAsDataURL(r.file) IN
        /\ reads' = Remove(reads, r)
        /\ uploadedImage' = Set(r.own, imageUrl, uploadedImage)
        /\ uploadedFile' = Set(r.own, r.file, uploadedFile)
        /\ localStorage' =
             setItem(setItem(localStorage, "cachedImage", imageUrl),
                     "cachedImageTimestamp", toString(now))
        /\ notified' = <<>>
        /\ isLoading' = Set(r.own, FALSE, isLoading)
        /\ alertMsg' = NoAlert
        /\ UNCHANGED <<mounted, showCamera, stream, faceAgingResult,
                       isProcessingAging, domState, now, liveTracks,
                       cameraReqs, blobs, fetches>>
        /\ UNCHANGED otherVars

\* reader.onload writing the image key only
readerOnloadNoTimestamp(r) ==
        LET imageUrl == ReadAsDataURL(r.file) IN
        /\ reads' = Remove(reads, r)
        /\ uploadedImage' = Set(r.own, imageUrl, uploadedImage)
        /\ uploadedFile' = Set(r.own, r.file, uploadedFile)
        /\ localStorage' =
             setItem(localStorage, "cachedImage", imageUrl)
        /\ notified' = <<imageUrl>>
        /\ isLoading' = Set(r.own, FALSE, isLoading)
        /\ alertMsg' = NoAlert
        /\ UNCHANGED <<mounted, showCamera, stream, faceAgingResult,
                       isProcessingAging, domState, now, liveTracks,
                       cameraReqs, blobs, fetches>>
        /\ UNCHANGED otherVars

\* reader.onload
readerOnload(r) ==
        LET imageUrl == ReadAsDataURL(r.file) IN
        /\ reads' = Remove(reads, r)
        /\ uploadedImage' = Set(r.own, imageUrl, uploadedImage)
        /\ uploadedFile' = Set(r.own, r.file, uploadedFile)
        /\ localStorage' =
             setItem(setItem(localStorage, "cachedImage", imageUrl),
                     "cachedImageTimestamp", toString(now))
        /\ notified' = <<imageUrl>>
        /\ isLoading' = Set(r.own, FALSE, isLoading)
        /\ alertMsg' = NoAlert
        /\ UNCHANGED <<mounted, showCamera, stream, faceAgingResult,
                       isProcessingAging, domState, now, liveTracks,
                       cameraReqs, blobs, fetches>>
        /\ UNCHANGED otherVars

\* the read fails: the reader has no onerror handler and readAsDataURL does
\* not throw, so nothing runs
readerError(r) ==
        /\ reads' = Remove(reads, r)
        /\ Quiet
        /\ UNCHANGED <<mounted, compState, domState, localStorage, now, liveTracks, cameraReqs, blobs, fetches>>
        /\ UNCHANGED otherVars

\* handleRemoveImage leaving the timestamp key in localStorage
handleRemoveImageKeepsTimestamp ==
    /\ View = "image"
    /\ ~dialogOpen
    /\ uploadedImage' = Null
    /\ uploadedFile' = Null
    /\ faceAgingResult' = Null
    /\ localStorage' = removeItem(localStorage, "cachedImage")
    /\ notified' = <<EmptyString>>
    /\ alertMsg' = NoAlert
    /\ UNCHANGED <<mounted, isLoading, showCamera, stream, isProcessingAging,
                   domState, now, liveTracks, pendingOps>>
    /\ UNCHANGED otherVars

\* handleRemoveImage
handleRemoveImage ==
    /\ View = "image"
    /\ ~dialogOpen
    /\ uploadedImage' = Null
    /\ uploadedFile' = Null
    /\ faceAgingResult' = Null
    /\ localStorage' =
         removeItem(removeItem(localStorage, "cachedImage"),
                    "cachedImageTimestamp")
    /\ notified' = <<EmptyString>>
    /\ alertMsg' = NoAlert
    /\ UNCHANGED <<mounted, isLoading, showCamera, stream, isProcessingAging,
                   domState, now, liveTracks, pendingOps>>
    /\ UNCHANGED otherVars

\* ------------------------------------------------------------- camera
\* handleCameraClick up to await navigator.mediaDevices.getUserMedia(...)
handleCameraClick ==
    /\ UploadButtonsEnabled
    /\ ~dialogOpen
    /\ TotalPending < MaxPending
    /\ isLoading' = TRUE
    /\ cameraReqs' = Add(cameraReqs, [own |-> TRUE])
    /\ Quiet
    /\ UNCHANGED <<mounted, uploadedImage, uploadedFile, showCamera, stream,
                   faceAgingResult, isProcessingAging, domState, localStorage,
                   now, liveTracks, reads, blobs, fetches>>
    /\ UNCHANGED otherVars

StreamsInUse == liveTracks \cup {stream} \cup {b.stream : b \in Pending(blobs)}

FreeStreams == (1..MaxStreams) \ StreamsInUse

NewStream == CHOOSE s \in FreeStreams : \A t \in FreeStreams : s <= t

\* the cleanup of useEffect(..., [stream]) stops the tracks of the stream the
\* state held whenever the state changes to another value
StoppedByCleanup(newStream) == IF newStream # stream THEN {stream} ELSE {}

\* getUserMedia resolves: setStream, setShowCamera(true); the <video> is in
\* the DOM at this point only if the camera view was already rendered, and
\* then the handler awaits its onloadedmetadata before setIsLoading(false)
getUserMediaResolves ==
    \E c \in Pending(cameraReqs) :
        LET mediaStream == NewStream
            installed == Set(c.own, mediaStream, stream)
            videoInDom == c.own /\ mounted /\ showCamera
        IN
        /\ FreeStreams # {}
        /\ cameraReqs' = Remove(cameraReqs, c)
        /\ stream' = installed
        /\ showCamera' = Set(c.own, TRUE, showCamera)
        /\ liveTracks' =
             (liveTracks \cup {mediaStream}) \ StoppedByCleanup(installed)
        /\ videoReady' = Set(c.own, FALSE, videoReady)
        /\ metaWait' = (metaWait \/ videoInDom)
        /\ isLoading' = IF videoInDom THEN isLoading
                        ELSE Set(c.own, FALSE, isLoading)
        /\ Quiet
        /\ UNCHANGED <<mounted, uploadedImage, uploadedFile, faceAgingResult,
                       isProcessingAging, dialogOpen, localStorage, now, reads, blobs, fetches>>
        /\ UNCHANGED otherVars

\* the catch block without setIsLoading(false)
getUserMediaRejectsKeepsLoading ==
    \E c \in Pending(cameraReqs) :
        /\ cameraReqs' = Remove(cameraReqs, c)
        /\ alertMsg' =
             "Camera not available. Please use the upload option instead."
        /\ notified' = <<>>
        /\ UNCHANGED <<mounted, compState, domState, localStorage, now,
                       liveTracks, reads, blobs, fetches>>
        /\ UNCHANGED otherVars

\* getUserMedia rejects (permission denied, no camera): the catch block
getUserMediaRejects ==
    \E c \in Pending(cameraReqs) :
        /\ cameraReqs' = Remove(cameraReqs, c)
        /\ isLoading' = Set(c.own, FALSE, isLoading)
        /\ alertMsg' =
             "Camera not available. Please use the upload option instead."
        /\ notified' = <<>>
        /\ UNCHANGED <<mounted, uploadedImage, uploadedFile, showCamera,
                       stream, faceAgingResult, isProcessingAging, domState,
                       localStorage, now, liveTracks, reads, blobs,
                       fetches>>
        /\ UNCHANGED otherVars

\* the <video> of the camera view gets the first frame metadata of its stream
videoLoadedMetadata ==
    /\ View = "camera"
    /\ stream \in liveTracks
    /\ ~videoReady
    /\ videoReady' = TRUE
    /\ metaWait' = FALSE
    /\ isLoading' = IF metaWait THEN FALSE ELSE isLoading
    /\ Quiet
    /\ UNCHANGED <<mounted, uploadedImage, uploadedFile, showCamera, stream,
                   faceAgingResult, isProcessingAging, dialogOpen,
                   localStorage, now, liveTracks, pendingOps>>
    /\ UNCHANGED otherVars

\* stopCamera without setStream(null)
stopCameraKeepsStream(closure, own) ==
    /\ stream' = stream
    /\ showCamera' = Set(own, FALSE, showCamera)
    /\ liveTracks' = liveTracks \ {closure}
    /\ videoReady' = Set(own, FALSE, videoReady)
    /\ metaWait' = Set(own, FALSE, metaWait)

\* stopCamera as closed over `closure`, the stream of the render that made it
\* stopCamera without setShowCamera(false)
stopCameraKeepsView(closure, own) ==
    /\ stream' = IF closure # NoStream THEN Set(own, NoStream, stream)
                 ELSE stream
    /\ showCamera' = showCamera
    /\ liveTracks' = (liveTracks \ {closure}) \ StoppedByCleanup(stream')
    /\ videoReady' = Set(own, FALSE, videoReady)
    /\ metaWait' = Set(own, FALSE, metaWait)

stopCamera(closure, own) ==
    /\ stream' = IF closure # NoStream THEN Set(own, NoStream, stream)
                 ELSE stream
    /\ showCamera' = Set(own, FALSE, showCamera)
    /\ liveTracks' = (liveTracks \ {closure}) \ StoppedByCleanup(stream')
    /\ videoReady' = Set(own, FALSE, videoReady)
    /\ metaWait' = Set(own, FALSE, metaWait)

\* the Cancel button of the camera view
cancelCamera ==
    /\ View = "camera"
    /\ ~dialogOpen
    /\ stopCamera(stream, TRUE)
    /\ Quiet
    /\ UNCHANGED <<mounted, uploadedImage, uploadedFile, isLoading,
                   faceAgingResult, isProcessingAging, dialogOpen,
                   localStorage, now, pendingOps>>
    /\ UNCHANGED otherVars

\* stopCamera called again once the camera view is off (the Cancel button is
\* then no longer rendered)
stopCameraAgain ==
    /\ mounted
    /\ View # "camera"
    /\ ~dialogOpen
    /\ stopCamera(stream, TRUE)
    /\ Quiet
    /\ UNCHANGED <<mounted, uploadedImage, uploadedFile, isLoading,
                   faceAgingResult, isProcessingAging, dialogOpen,
                   localStorage, now, pendingOps>>
    /\ UNCHANGED otherVars

\* capturePhoto without its videoWidth/videoHeight check
capturePhotoNoDimensionCheck ==
    /\ View = "camera"
    /\ ~dialogOpen
    /\ TotalPending < MaxPending
    /\ blobs' = Add(blobs, [stream |-> stream, own |-> TRUE])
    /\ alertMsg' = NoAlert
    /\ notified' = <<>>
    /\ UNCHANGED <<mounted, compState, domState, localStorage, now,
                   liveTracks, reads, cameraReqs, fetches>>
    /\ UNCHANGED otherVars

\* capturePhoto from the Capture button: video and canvas are in the DOM
capturePhoto ==
    /\ View = "camera"
    /\ ~dialogOpen
    /\ IF ~videoReady
       THEN /\ alertMsg' =
                 "Camera not ready yet. Please wait a moment and try again."
            /\ UNCHANGED blobs
       ELSE /\ TotalPending < MaxPending
            /\ blobs' = Add(blobs, [stream |-> stream, own |-> TRUE])
            /\ alertMsg' = NoAlert
    /\ notified' = <<>>
    /\ UNCHANGED <<mounted, compState, domState, localStorage, now,
                   liveTracks, reads, cameraReqs, fetches>>
    /\ UNCHANGED otherVars

\* capturePhoto called with no <video>/<canvas> rendered: console.error, return
capturePhotoNoRefs ==
    /\ mounted
    /\ View # "camera"
    /\ Quiet
    /\ UNCHANGED <<mounted, compState, domState, localStorage, now,
                   liveTracks, pendingOps>>
    /\ UNCHANGED otherVars

\* the callback without its stopCamera() call
toBlobCallbackNoStop ==
    \E b \in Pending(blobs) :
        /\ blobs' = Remove(blobs, b)
        /\ handleFileSelect(CameraPhoto, b.own)
        /\ notified' = <<>>
        /\ UNCHANGED <<mounted, uploadedImage, uploadedFile, showCamera,
                       stream, faceAgingResult, isProcessingAging, domState,
                       localStorage, now, liveTracks, cameraReqs, fetches>>
        /\ UNCHANGED otherVars

\* the canvas.toBlob callback with a blob
toBlobCallback ==
    \E b \in Pending(blobs) :
        /\ blobs' = Remove(blobs, b)
        /\ handleFileSelect(CameraPhoto, b.own)
        /\ stopCamera(b.stream, b.own)
        /\ notified' = <<>>
        /\ UNCHANGED <<mounted, uploadedImage, uploadedFile, faceAgingResult,
                       isProcessingAging, dialogOpen, localStorage, now, cameraReqs, fetches>>
        /\ UNCHANGED otherVars

\* the canvas.toBlob callback with null
toBlobFails ==
    \E b \in Pending(blobs) :
        /\ blobs' = Remove(blobs, b)
        /\ alertMsg' = "Failed to capture photo. Please try again."
        /\ notified' = <<>>
        /\ UNCHANGED <<mounted, compState, domState, localStorage, now, liveTracks, reads, cameraReqs, fetches>>
        /\ UNCHANGED otherVars

\* ------------------------------------------------------------- /api/face-aging
\* JSON text is a tagged value: JSON.parse inverts JSON.stringify and throws
\* on any other string
JSONstringify(value) == [kind |-> "string", chars |-> <<"json", value>>]

ParsesAsJSON(str) == str.kind = "string" /\ str.chars # <<>> /\ str.chars[1] = "json"

JSONparse(str) == str.chars[2]

\* import smashData from "./smash.json"
SmashData == [patient |-> "smash.json"]

\* <ImageUpload smashData={smashData} />
smashDataPropBaseline == SmashData

\* <ImageUpload smashData={improvementData || smashData} />
smashDataProp == IF improvementData # Null THEN improvementData ELSE SmashData

\* JSON.stringify(parsedSmashData, null, 2)
JSONstringifyPretty(value) ==
    [kind |-> "string", chars |-> <<"json, indent 2", value>>]

\* the health data the route puts into the prompt
PromptContext(form) == JSONstringifyPretty(JSONparse(form.smash))

ProviderReplies == {"throws", "no b64_json", "b64_json"}

\* `data:image/png;base64,${base64Data}` of the image generated from `image`
GeneratedDataURL(image) ==
    [kind |-> "dataurl", mime |-> "image/png", b64 |-> <<"generated", image.bytes>>]

Response(status, error, prediction, called) ==
    [status |-> status, error |-> error, prediction |-> prediction,
     providerCalled |-> called, providerCalls |-> IF called THEN 1 ELSE 0]

\* a request body that request.formData() cannot read
NotMultipart == [text |-> "not multipart"]

IsFormData(body) == {"image", "smash"} \subseteq DOMAIN body

\* !image || !smashData: formData.get gives null for an absent field
FieldMissing(form) ==
    \/ form.image = Null
    \/ form.image = EmptyString
    \/ form.smash = Null
    \/ form.smash = EmptyString

\* the route with the credential check ahead of the field check
POSTKeyFirst(form, apiKeyConfigured, reply) ==
    IF ~IsFormData(form)
    THEN Response(500, "Failed to process face aging prediction", Null, FALSE)
    ELSE IF ~apiKeyConfigured
    THEN Response(500, "OpenAI API key not configured", Null, FALSE)
    ELSE IF FieldMissing(form)
    THEN Response(400, "Both image and smash data are required", Null, FALSE)
    ELSE IF ~ParsesAsJSON(form.smash)
    THEN Response(400, "Invalid JSON in smash data", Null, FALSE)
    ELSE IF reply = "throws"
    THEN Response(500, "Failed to process face aging prediction", Null, TRUE)
    ELSE Response(200, "",
                  IF reply = "b64_json" THEN GeneratedDataURL(form.image)
                  ELSE Null,
                  TRUE)

\* the route parsing the smash field before it looks at the credential
POSTParseFirst(form, apiKeyConfigured, reply) ==
    IF ~IsFormData(form)
    THEN Response(500, "Failed to process face aging prediction", Null, FALSE)
    ELSE IF FieldMissing(form)
    THEN Response(400, "Both image and smash data are required", Null, FALSE)
    ELSE IF ~ParsesAsJSON(form.smash)
    THEN Response(400, "Invalid JSON in smash data", Null, FALSE)
    ELSE IF ~apiKeyConfigured
    THEN Response(500, "OpenAI API key not configured", Null, FALSE)
    ELSE IF reply = "throws"
    THEN Response(500, "Failed to process face aging prediction", Null, TRUE)
    ELSE Response(200, "",
                  IF reply = "b64_json" THEN GeneratedDataURL(form.image)
                  ELSE Null,
                  TRUE)

\* the route without its JSON.parse of the smash field
POSTNoParse(form, apiKeyConfigured, reply) ==
    IF ~IsFormData(form)
    THEN Response(500, "Failed to process face aging prediction", Null, FALSE)
    ELSE IF FieldMissing(form)
    THEN Response(400, "Both image and smash data are required", Null, FALSE)
    ELSE IF ~apiKeyConfigured
    THEN Response(500, "OpenAI API key not configured", Null, FALSE)
    ELSE IF reply = "throws"
    THEN Response(500, "Failed to process face aging prediction", Null, TRUE)
    ELSE Response(200, "",
                  IF reply = "b64_json" THEN GeneratedDataURL(form.image)
                  ELSE Null,
                  TRUE)

\* export async function POST(request); a body that is not form data makes
\* request.formData() throw into the catch block
POST(form, apiKeyConfigured, reply) ==
    IF ~IsFormData(form)
    THEN Response(500, "Failed to process face aging prediction", Null, FALSE)
    ELSE IF FieldMissing(form)
    THEN Response(400, "Both image and smash data are required", Null, FALSE)
    ELSE IF ~apiKeyConfigured
    THEN Response(500, "OpenAI API key not configured", Null, FALSE)
    ELSE IF ~ParsesAsJSON(form.smash)
    THEN Response(400, "Invalid JSON in smash data", Null, FALSE)
    ELSE IF reply = "throws"
    THEN Response(500, "Failed to process face aging prediction", Null, TRUE)
    ELSE Response(200, "",
                  IF reply = "b64_json" THEN GeneratedDataURL(form.image)
                  ELSE Null,
                  TRUE)

\* response.ok
ResponseOk(response) == response.status \in 200..299

\* ------------------------------------------------------------- the route on its own
\* what any client can send: a body that is not form data, or a form whose
\* fields are absent, empty or filled
FormImages == {Null, EmptyString, CameraPhoto} \cup Files

NotJSON == [kind |-> "string", chars |-> <<"text", "{">>]

FormSmash == {Null, EmptyString, JSONstringify(SmashData), NotJSON}

Bodies ==
    {NotMultipart} \cup {[image |-> i, smash |-> s] : i \in FormImages, s \in FormSmash}

Requests ==
    [body : Bodies, apiKeyConfigured : BOOLEAN, reply : ProviderReplies]

InitProxy ==
    /\ InitComponent
    /\ routeRequest \in Requests
    /\ routeResponse = Null
    /\ routeEarlier = Null
    /\ InitVisit
    /\ InitBuild

\* a route that answers a form it has just seen from memory
routePOSTCached ==
    /\ routeRequest # Null
    /\ routeResponse = Null
    /\ routeResponse' =
         IF routeEarlier # Null /\ routeEarlier.request.body = routeRequest.body
         THEN routeEarlier.response
         ELSE POST(routeRequest.body, routeRequest.apiKeyConfigured,
                   routeRequest.reply)
    /\ UNCHANGED <<routeRequest, routeEarlier, componentVars, visitVars,
                   buildVars>>

\* the route handler runs on the request and returns its response; it reads
\* and writes nothing that outlives the call
routePOST ==
    /\ routeRequest # Null
    /\ routeResponse = Null
    /\ routeResponse' = POST(routeRequest.body, routeRequest.apiKeyConfigured,
                             routeRequest.reply)
    /\ UNCHANGED <<routeRequest, routeEarlier, componentVars, visitVars,
                   buildVars>>

\* the next request arrives; the route keeps nothing between requests
clientSends ==
    /\ routeResponse # Null
    /\ routeRequest' \in Requests
    /\ routeResponse' = Null
    /\ routeEarlier' = [request |-> routeRequest, response |-> routeResponse]
    /\ UNCHANGED <<componentVars, visitVars, buildVars>>

NextProxy == routePOST \/ clientSends

SpecProxy == InitProxy /\ [][NextProxy]_vars

\* ------------------------------------------------------------- face aging
\* handleFaceAging from the enabled button, up to await fetch(...)
handleFaceAging ==
    /\ FaceAgingButtonEnabled
    /\ ~dialogOpen
    /\ TotalPending < MaxPending
    /\ isProcessingAging' = TRUE
    /\ fetches' = Add(fetches, [image |-> uploadedFile,
                                smash |-> JSONstringify(smashDataProp),
                                own |-> TRUE])
    /\ Quiet
    /\ UNCHANGED <<mounted, uploadedImage, uploadedFile, isLoading, showCamera,
                   stream, faceAgingResult, domState, localStorage, now,
                   liveTracks, reads, cameraReqs, blobs>>
    /\ UNCHANGED otherVars

\* the no-file guard without its return
handleFaceAgingNoReturn ==
    /\ mounted
    /\ uploadedFile = Null
    /\ TotalPending < MaxPending
    /\ alertMsg' = "Please upload an image first"
    /\ isProcessingAging' = TRUE
    /\ fetches' = Add(fetches, [image |-> uploadedFile,
                                smash |-> JSONstringify(smashDataProp),
                                own |-> TRUE])
    /\ notified' = <<>>
    /\ UNCHANGED <<mounted, uploadedImage, uploadedFile, isLoading, showCamera,
                   stream, faceAgingResult, domState, localStorage, now,
                   liveTracks, reads, cameraReqs, blobs>>
    /\ UNCHANGED otherVars

\* handleFaceAging called with no uploadedFile (the button is then disabled
\* or not rendered): alert and return
handleFaceAgingNoFile ==
    /\ mounted
    /\ uploadedFile = Null
    /\ alertMsg' = "Please upload an image first"
    /\ notified' = <<>>
    /\ UNCHANGED <<mounted, compState, domState, localStorage, now,
                   liveTracks, pendingOps>>
    /\ UNCHANGED otherVars

\* the rest of handleFaceAging once the response is there
fetchResponds(q, key, reply) ==
        LET response == POST(q, key, reply) IN
        /\ fetches' = Remove(fetches, q)
        /\ IF ResponseOk(response)
           THEN /\ faceAgingResult' =
                     Set(q.own, response.prediction, faceAgingResult)
                /\ alertMsg' = NoAlert
           ELSE /\ alertMsg' =
                     "Failed to process face aging. Please try again."
                /\ UNCHANGED faceAgingResult
        /\ isProcessingAging' = Set(q.own, FALSE, isProcessingAging)
        /\ notified' = <<>>
        /\ UNCHANGED <<mounted, uploadedImage, uploadedFile, isLoading,
                       showCamera, stream, domState, localStorage, now,
                       liveTracks, reads, cameraReqs, blobs>>
        /\ UNCHANGED otherVars

\* the catch block without the finally
fetchRejectsNoFinally(q) ==
        /\ fetches' = Remove(fetches, q)
        /\ alertMsg' = "Failed to process face aging. Please try again."
        /\ notified' = <<>>
        /\ UNCHANGED <<mounted, compState, domState, localStorage, now, liveTracks, reads, cameraReqs, blobs>>
        /\ UNCHANGED otherVars

\* fetch rejects (network error): catch and finally
fetchRejects(q) ==
        /\ fetches' = Remove(fetches, q)
        /\ alertMsg' = "Failed to process face aging. Please try again."
        /\ isProcessingAging' = Set(q.own, FALSE, isProcessingAging)
        /\ notified' = <<>>
        /\ UNCHANGED <<mounted, uploadedImage, uploadedFile, isLoading,
                       showCamera, stream, faceAgingResult, domState,
                       localStorage, now, liveTracks, reads,
                       cameraReqs, blobs>>
        /\ UNCHANGED otherVars

\* ------------------------------------------------------------- dashboard: useVisitAPI
\* what the visit-crew service answers: an error status, the record with its
\* recommendations, JSON null, or a body that is not JSON
VisitReplies == {"503", "improved", "null", "not json"}

ImprovedData == [patient |-> "smash.json", recommendations |-> "visit-crew"]

VisitSucceededAlert ==
    "Visit doctor successfully! Your improvement plan is now showing."

VisitFailedAlert == "Failed to schedule visit. Please try again."

\* err.message, the string setError receives
Message(text) == [kind |-> "string", chars |-> <<text>>]

\* scheduleVisit(smashData) up to await fetch(...)
scheduleVisit ==
    /\ mounted
    /\ BagCardinality(visits) < MaxVisits
    /\ isVisitLoading' = TRUE
    /\ visitError' = Null
    /\ visits' = Add(visits, [body |-> JSONstringify(SmashData)])
    /\ Quiet
    /\ UNCHANGED <<improvementData, mounted, compState, domState, localStorage,
                   now, liveTracks, pendingOps, routeVars,
                       buildVars>>

\* handleVisitDoctor, the onClick of the button that is disabled while
\* isVisitLoading
handleVisitDoctor ==
    /\ ~isVisitLoading
    /\ ~dialogOpen
    /\ scheduleVisit

\* scheduleVisit's catch that sends the request again
visitRejectsRetries(v) ==
        /\ visitError' = Message("Failed to fetch")
        /\ alertMsg' = NoAlert
        /\ notified' = <<>>
        /\ UNCHANGED <<visits, isVisitLoading, improvementData, mounted,
                       compState, domState, localStorage, now, liveTracks,
                       pendingOps, routeVars,
                       buildVars>>

\* scheduleVisit's catch without the finally
visitRejectsNoFinally(v) ==
        /\ visits' = Remove(visits, v)
        /\ visitError' = Message("Failed to fetch")
        /\ alertMsg' = VisitFailedAlert
        /\ notified' = <<>>
        /\ UNCHANGED <<isVisitLoading, improvementData, mounted, compState,
                       domState, localStorage, now, liveTracks, pendingOps,
                       routeVars,
                       buildVars>>

\* the fetch rejects: catch (setError, rethrow), finally, and the alert of
\* handleVisitDoctor's catch
visitRejects(v) ==
        /\ visits' = Remove(visits, v)
        /\ visitError' = Message("Failed to fetch")
        /\ isVisitLoading' = FALSE
        /\ alertMsg' = VisitFailedAlert
        /\ notified' = <<>>
        /\ UNCHANGED <<improvementData, mounted, compState, domState,
                       localStorage, now, liveTracks, pendingOps, routeVars,
                       buildVars>>

\* the rest of scheduleVisit and of handleVisitDoctor once the response is
\* there
visitResponds(v, reply) ==
        /\ visits' = Remove(visits, v)
        /\ IF reply = "503"
           THEN /\ visitError' = Message("HTTP error! status: 503")
                /\ alertMsg' = VisitFailedAlert
                /\ UNCHANGED improvementData
           ELSE IF reply = "not json"
           THEN /\ visitError' = Message("Unexpected token")
                /\ alertMsg' = VisitFailedAlert
                /\ UNCHANGED improvementData
           ELSE /\ improvementData' =
                     IF reply = "improved" THEN ImprovedData ELSE Null
                /\ alertMsg' = VisitSucceededAlert
                /\ UNCHANGED visitError
        /\ isVisitLoading' = FALSE
        /\ notified' = <<>>
        /\ UNCHANGED <<mounted, compState, domState, localStorage, now,
                       liveTracks, pendingOps, routeVars,
                       buildVars>>

\* the dashboard page: the hook and the ImageUpload it renders, with file
\* selection, removal and the prediction request
NextDashboard ==
    \/ Mount
    \/ handleUploadClick
    \/ handleFileChange
    \/ \E r \in Pending(reads) : readerOnload(r)
    \/ handleRemoveImage
    \/ handleFaceAging
    \/ \E q \in Pending(fetches), key \in BOOLEAN, reply \in ProviderReplies :
          fetchResponds(q, key, reply)
    \/ \E q \in Pending(fetches) : fetchRejects(q)
    \/ handleVisitDoctor
    \/ \E v \in Pending(visits), reply \in VisitReplies : visitResponds(v, reply)
    \/ \E v \in Pending(visits) : visitRejects(v)

SpecDashboard == Init /\ [][NextDashboard]_vars

\* the hook with a caller that does not wait for isLoading: scheduleVisit is
\* called whenever the caller likes, also while a call is outstanding
NextHook ==
    \/ NextDashboard
    \/ scheduleVisit

SpecHook == Init /\ [][NextHook]_vars

\* ------------------------------------------------------------- Home: BuildProcess
steps ==
    << "Pulling your medical records",
       "Loading your health data",
       "Analyzing the health data",
       "Generating SMASH FM model",
       "Building your med mirror",
       "Building digital twin for your primary physitian (Dr Samantha Blake, MD)" >>

\* the indices steps.map passes to getStepStatus
StepIndices == 0 .. (Len(steps) - 1)

\* completedSteps.includes(index)
includes(list, index) == \E i \in 1 .. Len(list) : list[i] = index

getStepStatus(index) ==
    IF includes(completedSteps, index) THEN "completed"
    ELSE IF index = currentStep THEN "current"
    ELSE "pending"

\* (completedSteps.length / steps.length) * 100, rounded down
progressValue == (Len(completedSteps) * 100) \div Len(steps)

\* the BuildProcess component is rendered
BuildShown == homeMounted /\ showBuildProcess

\* handleStartBuild: Home renders BuildProcess, whose first render is
\* committed with the initial state; its effect has not run yet
handleStartBuild ==
    /\ homeMounted
    /\ ~showBuildProcess
    /\ showBuildProcess' = TRUE
    /\ currentStep' = 0
    /\ completedSteps' = <<>>
    /\ isComplete' = FALSE
    /\ effectPending' = TRUE
    /\ timer' = NoTimer
    /\ onCompleteCalls' = 0
    /\ UNCHANGED <<homeMounted, componentVars, routeVars, visitVars>>

\* the effect adding the step twice
buildEffectDuplicates ==
    /\ BuildShown
    /\ effectPending
    /\ effectPending' = FALSE
    /\ IF currentStep < Len(steps)
       THEN /\ completedSteps' =
                 Append(Append(completedSteps, currentStep), currentStep)
            /\ timer' = currentStep
       ELSE UNCHANGED <<completedSteps, timer>>
    /\ UNCHANGED <<homeMounted, showBuildProcess, currentStep, isComplete,
                   onCompleteCalls, componentVars, routeVars, visitVars>>

\* useEffect(..., [currentStep, onComplete]) for the currentStep just rendered
buildEffect ==
    /\ BuildShown
    /\ effectPending
    /\ effectPending' = FALSE
    /\ IF currentStep < Len(steps)
       THEN /\ completedSteps' = Append(completedSteps, currentStep)
            /\ timer' = currentStep
       ELSE UNCHANGED <<completedSteps, timer>>
    /\ UNCHANGED <<homeMounted, showBuildProcess, currentStep, isComplete,
                   onCompleteCalls, componentVars, routeVars, visitVars>>

\* the timeout callback without its branch for the last step
timerFiresAlwaysAdvances ==
    /\ timer # NoTimer
    /\ timer' = NoTimer
    /\ currentStep' = currentStep + 1
    /\ effectPending' = TRUE
    /\ UNCHANGED <<isComplete, onCompleteCalls>>
    /\ UNCHANGED <<homeMounted, showBuildProcess, completedSteps,
                   componentVars, routeVars, visitVars>>

\* the callback of setTimeout(..., 2000)
timerFires ==
    /\ timer # NoTimer
    /\ timer' = NoTimer
    /\ IF timer = Len(steps) - 1
       THEN /\ isComplete' = TRUE
            /\ onCompleteCalls' = onCompleteCalls + 1
            /\ UNCHANGED <<currentStep, effectPending>>
       ELSE /\ currentStep' = currentStep + 1
            /\ effectPending' = TRUE
            /\ UNCHANGED <<isComplete, onCompleteCalls>>
    /\ UNCHANGED <<homeMounted, showBuildProcess, completedSteps,
                   componentVars, routeVars, visitVars>>

\* the page is left: BuildProcess unmounts, the cleanup of its effect runs
\* clearTimeout(timer), the state of Home and BuildProcess goes
leaveHome ==
    /\ homeMounted
    /\ homeMounted' = FALSE
    /\ showBuildProcess' = FALSE
    /\ currentStep' = 0
    /\ completedSteps' = <<>>
    /\ isComplete' = FALSE
    /\ effectPending' = FALSE
    /\ timer' = NoTimer
    /\ onCompleteCalls' = 0
    /\ UNCHANGED <<componentVars, routeVars, visitVars>>

\* the page is opened again
openHome ==
    /\ ~homeMounted
    /\ homeMounted' = TRUE
    /\ UNCHANGED <<showBuildProcess, currentStep, completedSteps, isComplete,
                   effectPending, timer, onCompleteCalls, componentVars,
                   routeVars, visitVars>>

\* the Home page, and the dashboard its link leads to
NextBuild ==
    \/ handleStartBuild
    \/ buildEffect
    \/ timerFires
    \/ leaveHome
    \/ openHome
    \/ NextDashboard

SpecBuild == Init /\ [][NextBuild]_vars

\* timers fire and effects run: the browser's event loop and React's
\* scheduler leave neither waiting for ever
SpecBuildLive ==
    /\ Init
    /\ [][NextBuild]_vars
    /\ WF_vars(buildEffect)
    /\ WF_vars(timerFires)

\* ------------------------------------------------------------- specification
Next ==
    \/ Mount
    \/ Unmount
    \/ Reload
    \/ Tick
    \/ handleUploadClick
    \/ handleFileChange
    \/ \E r \in Pending(reads) : readerOnload(r)
    \/ \E r \in Pending(reads) : readerError(r)
    \/ handleRemoveImage
    \/ handleCameraClick
    \/ getUserMediaResolves
    \/ getUserMediaRejects
    \/ videoLoadedMetadata
    \/ cancelCamera
    \/ stopCameraAgain
    \/ capturePhoto
    \/ capturePhotoNoRefs
    \/ toBlobCallback
    \/ toBlobFails
    \/ handleFaceAging
    \/ handleFaceAgingNoFile
    \/ \E q \in Pending(fetches), key \in BOOLEAN, reply \in ProviderReplies :
          fetchResponds(q, key, reply)
    \/ \E q \in Pending(fetches) : fetchRejects(q)

Spec == Init /\ [][Next]_vars

\* ------------------------------------------------------------- properties
CacheKeys == {"cachedImage", "cachedImageTimestamp"}
OwnFetches == {q \in Pending(fetches) : q.own}
NoImageAlert == "Please upload an image first"
PredictionFailedAlert == "Failed to process face aging. Please try again."

\* C1: whenever a component is mounted, the cache holds an entry if and only
\* if the component holds an uploaded image, and the cached data URL is the
\* held one.
C1_CacheAgreesWithAsset ==
    mounted =>
        /\ (uploadedImage # Null) <=> ("cachedImage" \in DOMAIN localStorage)
        /\ uploadedImage # Null => getItem("cachedImage") = uploadedImage

\* C2: a non-empty prediction result was generated from the image the
\* component currently holds.
C2_PredictionOfCurrentAsset ==
    faceAgingResult # Null =>
        /\ uploadedFile # Null
        /\ faceAgingResult = GeneratedDataURL(uploadedFile)

\* C3: no acquired stream is left without teardown: every stream whose
\* tracks are live is the one a mounted component holds, so that cancel,
\* capture or the unmount cleanup stops it.
C3_EveryLiveStreamIsHeld ==
    liveTracks \subseteq (IF mounted THEN {stream} ELSE {})

\* C4: at most one camera stream has live tracks.
C4_AtMostOneLiveStream == Cardinality(liveTracks) <= 1

\* C5 as stated: at most one request to the prediction endpoint is in flight.
C5_AtMostOneRequestInFlight == BagCardinality(fetches) <= 1

\* C5 amended: at most one request issued by the mounted component is in
\* flight, it is in flight exactly while isProcessingAging is set, and the
\* button is disabled meanwhile.
C5_AtMostOneOwnRequest ==
    /\ \A q \in OwnFetches : CopiesIn(q, fetches) = 1
    /\ Cardinality(OwnFetches) <= 1
    /\ mounted => (isProcessingAging <=> OwnFetches # {})
    /\ OwnFetches # {} => ~FaceAgingButtonEnabled

C5_Witness ==
    \E q \in OwnFetches :
        /\ View = "image"
        /\ uploadedFile # Null
        /\ uploadedFile # q.image
        /\ ~FaceAgingButtonEnabled

\* C6: handleFaceAging invoked with no uploaded file alerts "Please upload
\* an image first", issues no request and changes neither the component
\* state nor the cache.
C6_NoImageNoRequest ==
    [][handleFaceAgingNoFile =>
          /\ alertMsg' = NoImageAlert
          /\ fetches' = fetches
          /\ compState' = compState
          /\ localStorage' = localStorage]_vars

C6_Witness ==
    /\ mounted
    /\ uploadedFile = Null
    /\ alertMsg = NoImageAlert
    /\ fetches = EmptyBag

\* C7: whenever the component shows an uploaded image and no request is
\* pending, the prediction can be requested.
C7_PredictionAvailableForShownImage ==
    (View = "image" /\ ~isProcessingAging) => FaceAgingButtonEnabled

\* C8: when a request fails (fetch rejects, or the response is not 2xx) the
\* prediction result is unchanged, the failure is alerted, and for a request
\* of the mounted component isProcessingAging is cleared, which enables the
\* button again if the image is still there.
C8_Failed(q) ==
    /\ faceAgingResult' = faceAgingResult
    /\ alertMsg' = PredictionFailedAlert
    /\ q.own => /\ ~isProcessingAging'
                /\ (View = "image" /\ uploadedFile # Null)
                       => FaceAgingButtonEnabled'

C8_FailureKeepsResult ==
    [][\A q \in Pending(fetches) :
          /\ fetchRejects(q) => C8_Failed(q)
          /\ \A key \in BOOLEAN, reply \in ProviderReplies :
                (fetchResponds(q, key, reply) /\ ~ResponseOk(POST(q, key, reply)))
                    => C8_Failed(q)]_vars

C8_Witness ==
    /\ alertMsg = PredictionFailedAlert
    /\ faceAgingResult # Null
    /\ FaceAgingButtonEnabled

\* C9: a 2xx response carrying a data URL to a request of the mounted
\* component stores it as faceAgingResult; while a result is stored the image
\* view shows it and not the upload; a stored result changes only by removal
\* of the image, a later 2xx response, or the end of the component.
C9_Stored(q, key, reply) ==
    LET response == POST(q, key, reply) IN
    (fetchResponds(q, key, reply) /\ q.own /\ ResponseOk(response)
        /\ response.prediction # Null)
    => faceAgingResult' = response.prediction

C9_Replaced ==
    \/ handleRemoveImage
    \/ Unmount
    \/ Reload
    \/ \E q \in OwnFetches, key \in BOOLEAN, reply \in ProviderReplies :
          fetchResponds(q, key, reply) /\ ResponseOk(POST(q, key, reply))

C10_Written(r) ==
    readerOnload(r) =>
        /\ notified' = <<ReadAsDataURL(r.file)>>
        /\ CacheRead' = ReadAsDataURL(r.file)
        /\ DOMAIN localStorage' = CacheKeys
        /\ ParseInt(localStorage'["cachedImageTimestamp"]) = now

C10_StillRead ==
    (/\ DOMAIN localStorage = CacheKeys
     /\ localStorage' = localStorage
     /\ now' - ParseInt(localStorage["cachedImageTimestamp"]) < 86400000)
    => CacheRead' = localStorage["cachedImage"]

C10_SelectThenReadSame ==
    [][(\A r \in Pending(reads) : C10_Written(r)) /\ C10_StillRead]_vars

C10_Witness ==
    /\ mounted
    /\ uploadedImage # Null
    /\ CacheRead = uploadedImage
    /\ now - ParseInt(getItem("cachedImageTimestamp")) = twentyFourHours - 1

\* C11: the cache read of the mount effect surfaces an image (to the UI or to
\* the upload callback) only if an entry is stored whose age is below
\* 86,400,000 ms, and then it is the stored one; for an entry of age 24 hours
\* or more it shows nothing, does not call the upload callback and removes
\* both cache keys.
C11_Age == now - ParseInt(localStorage["cachedImageTimestamp"])

C11_Read ==
    /\ (uploadedImage' # Null \/ notified' # <<>>) =>
          /\ DOMAIN localStorage = CacheKeys
          /\ C11_Age < 86400000
          /\ uploadedImage' = localStorage["cachedImage"]
    /\ (DOMAIN localStorage = CacheKeys /\ C11_Age >= 86400000) =>
          /\ uploadedImage' = Null
          /\ DisplayedImage' = Null
          /\ notified' = <<>>
          /\ DOMAIN localStorage' \cap CacheKeys = {}

C11_CacheExpiry == [][(Mount \/ Reload) => C11_Read]_vars

C11_Witness ==
    /\ ~mounted
    /\ DOMAIN localStorage = CacheKeys
    /\ C11_Age = 86400000

\* C12: when the component is mounted (again in the page, or by a reload)
\* while the cache holds an entry younger than 24 hours, the image shown is
\* the cached data URL, the upload callback is called exactly once with it
\* and the entry stays; and the cached data URL is always the one the
\* completed selection stored and passed to the callback.
C12_Restored ==
    (/\ Mount \/ Reload
     /\ DOMAIN localStorage = CacheKeys
     /\ now - ParseInt(localStorage["cachedImageTimestamp"]) < 86400000)
    => /\ uploadedImage' = localStorage["cachedImage"]
       /\ DisplayedImage' = localStorage["cachedImage"]
       /\ notified' = <<localStorage["cachedImage"]>>
       /\ localStorage' = localStorage

C12_StoredBySelection ==
    (/\ "cachedImage" \in DOMAIN localStorage'
     /\ getItem("cachedImage") # localStorage'["cachedImage"])
    => \E r \in Pending(reads) :
          /\ readerOnload(r)
          /\ localStorage'["cachedImage"] = ReadAsDataURL(r.file)
          /\ notified' = <<ReadAsDataURL(r.file)>>

C12_ReloadRestores == [][C12_Restored /\ C12_StoredBySelection]_vars

C12_Witness ==
    /\ mounted
    /\ uploadedImage = ReadAsDataURL(File("a.png", "image/png", "A"))
    /\ uploadedFile = Null
    /\ notified = <<uploadedImage>>
    /\ getItem("cachedImage") = uploadedImage
    /\ now - ParseInt(getItem("cachedImageTimestamp")) = twentyFourHours - 1

\* C13: selecting a file whose type is not an image alerts "Please select an
\* image file" and does nothing else: image, file, prediction, loading flag
\* and the rest of the component state are unchanged, no decode is started,
\* both cache keys are as before and the upload callback is not called.
NotAnImageAlert == "Please select an image file"

C13_Rejected(file) ==
    (handleFileChange /\ handleFileSelect(file, TRUE))
    => /\ alertMsg' = NotAnImageAlert
       /\ compState' = compState
       /\ localStorage' = localStorage
       /\ notified' = <<>>
       /\ pendingOps' = pendingOps

C13_NonImageRejected ==
    [][\A file \in Files : file.type = "text/plain" => C13_Rejected(file)]_vars

C13_Witness ==
    /\ mounted
    /\ alertMsg = NotAnImageAlert
    /\ ~dialogOpen
    /\ ~isLoading
    /\ reads = EmptyBag
    /\ DOMAIN localStorage = CacheKeys

\* C14: capturePhoto while the video has no frame dimensions, or while the
\* camera view is not rendered, starts no capture: no blob and no decode are
\* started, the cache is as before, the upload callback is not called, and
\* the component state is unchanged, so an active camera stays active with
\* its stream live; in the camera view the user is told "Camera not ready".
CameraNotReadyAlert ==
    "Camera not ready yet. Please wait a moment and try again."

C14_Unchanged ==
    /\ compState' = compState
    /\ View' = View
    /\ liveTracks' = liveTracks
    /\ pendingOps' = pendingOps
    /\ localStorage' = localStorage
    /\ notified' = <<>>

C14_CaptureNotReady ==
    [][/\ (capturePhoto /\ ~videoReady)
             => (C14_Unchanged /\ alertMsg' = CameraNotReadyAlert)
       /\ capturePhotoNoRefs => C14_Unchanged]_vars

C14_Witness ==
    /\ View = "camera"
    /\ alertMsg = CameraNotReadyAlert
    /\ ~videoReady
    /\ stream \in liveTracks
    /\ blobs = EmptyBag
    /\ uploadedImage = Null

\* C15: a capture with frame dimensions hands the frame to toBlob; the
\* callback with the blob starts the decode of camera-photo.jpg (image/jpeg)
\* as a file selection does and stops the camera: the tracks of the captured
\* stream and of the stream the component holds are stopped, the component
\* holds no stream and is out of the camera view; the decode, when it
\* completes, sets image and file, writes the cache and calls the upload
\* callback with the photo's data URL.
C15_Captured ==
    (capturePhoto /\ videoReady)
    => blobs' = Add(blobs, [stream |-> stream, own |-> TRUE])

C15_Stopped ==
    toBlobCallback =>
        \E b \in Pending(blobs) :
            /\ blobs' = Remove(blobs, b)
            /\ reads' = Add(reads, [file |-> CameraPhoto, own |-> b.own])
            /\ b.stream \notin liveTracks'
            /\ b.own => /\ mounted
                        /\ isLoading'
                        /\ stream' = NoStream
                        /\ ~showCamera'
                        /\ View' # "camera"
                        /\ stream \notin liveTracks'

C15_Decoded(r) ==
    (readerOnload(r) /\ r.file = CameraPhoto)
    => /\ r.file.type = "image/jpeg"
       /\ getItem("cachedImage")' = ReadAsDataURL(CameraPhoto)
       /\ notified' = <<ReadAsDataURL(CameraPhoto)>>
       /\ r.own => /\ uploadedImage' = ReadAsDataURL(CameraPhoto)
                   /\ uploadedFile' = CameraPhoto

C15_CaptureSelectsAndStops ==
    [][/\ C15_Captured
       /\ C15_Stopped
       /\ \A r \in Pending(reads) : C15_Decoded(r)]_vars

C15_Witness ==
    /\ View = "image"
    /\ uploadedFile = CameraPhoto
    /\ uploadedImage = ReadAsDataURL(CameraPhoto)
    /\ getItem("cachedImage") = uploadedImage
    /\ notified = <<uploadedImage>>
    /\ stream = NoStream
    /\ liveTracks = {}

\* C16: removing the image, in whatever state the Remove button is pressed
\* (a request or a decode may be pending), leaves image, file and prediction
\* null and nothing displayed, leaves neither cache key in localStorage, and
\* calls the upload callback exactly once, with the empty string.
C16_Removed ==
    /\ uploadedImage' = Null
    /\ uploadedFile' = Null
    /\ faceAgingResult' = Null
    /\ DisplayedImage' = Null
    /\ DOMAIN localStorage' \cap CacheKeys = {}
    /\ notified' = <<[kind |-> "string", chars |-> <<>>]>>

C16_RemoveClearsAll == [][handleRemoveImage => C16_Removed]_vars

C16_Witness ==
    /\ mounted
    /\ notified = <<EmptyString>>
    /\ uploadedImage = Null
    /\ faceAgingResult = Null
    /\ DOMAIN localStorage = {}
    /\ OwnFetches # {}

\* C17: when getUserMedia rejects, the user is told "Camera not available",
\* no stream is acquired or installed and the camera view is not switched
\* on, image, file, prediction and cache are unchanged and the upload
\* callback is not called; for a request of the mounted component the
\* loading flag is cleared, so that a component that was idle with no stream
\* is idle with no stream afterwards, with its upload and camera buttons
\* enabled.
CameraUnavailableAlert ==
    "Camera not available. Please use the upload option instead."

C17_Failed(c) ==
    /\ cameraReqs' = Remove(cameraReqs, c)
    /\ alertMsg' = CameraUnavailableAlert
    /\ stream' = stream
    /\ showCamera' = showCamera
    /\ liveTracks' = liveTracks
    /\ uploadedImage' = uploadedImage
    /\ uploadedFile' = uploadedFile
    /\ faceAgingResult' = faceAgingResult
    /\ localStorage' = localStorage
    /\ notified' = <<>>
    /\ c.own => /\ ~isLoading'
                /\ View = "idle" => /\ View' = "idle"
                                    /\ stream' = NoStream
                                    /\ ~showCamera'
                                    /\ UploadButtonsEnabled'

C17_CameraFailureKeepsUsable ==
    [][getUserMediaRejects => \E c \in Pending(cameraReqs) : C17_Failed(c)]_vars

C17_Witness ==
    /\ alertMsg = CameraUnavailableAlert
    /\ UploadButtonsEnabled
    /\ stream = NoStream
    /\ liveTracks = {}
    /\ cameraReqs = EmptyBag

\* C18: stopCamera, from the Cancel button or called again when the camera
\* is already off, leaves the camera view off and the stream reference null
\* with the tracks of the stream that was held stopped, and leaves image,
\* file, prediction, cache and pending operations unchanged without calling
\* the upload callback; called again after that it changes nothing.
C18_Off ==
    /\ ~showCamera'
    /\ stream' = NoStream
    /\ View' # "camera"
    /\ stream \notin liveTracks'
    /\ uploadedImage' = uploadedImage
    /\ uploadedFile' = uploadedFile
    /\ faceAgingResult' = faceAgingResult
    /\ localStorage' = localStorage
    /\ pendingOps' = pendingOps
    /\ notified' = <<>>

C18_CancelIdempotent ==
    [][/\ cancelCamera => C18_Off
       /\ stopCameraAgain => /\ C18_Off
                             /\ compState' = compState
                             /\ domState' = domState
                             /\ liveTracks' = liveTracks]_vars

C18_Witness ==
    \E b \in Pending(blobs) :
        /\ b.own
        /\ View = "idle"
        /\ stream = NoStream
        /\ b.stream \notin liveTracks
        /\ ~isLoading

\* C19: to a form whose image field or smash field is absent or empty the
\* route answers 400 with error "Both image and smash data are required",
\* with the credential configured or not, and without calling the image
\* generation API.
Handled == routeRequest # Null /\ routeResponse # Null

C19_FieldMissing ==
    LET form == routeRequest.body IN
    /\ IsFormData(form)
    /\ \/ form.image \in {Null, EmptyString}
       \/ form.smash \in {Null, EmptyString}

C19_MissingFieldIs400 ==
    (Handled /\ C19_FieldMissing) =>
        /\ routeResponse.status = 400
        /\ routeResponse.error = "Both image and smash data are required"
        /\ routeResponse.prediction = Null
        /\ ~routeResponse.providerCalled

C19_Witness ==
    /\ Handled
    /\ IsFormData(routeRequest.body)
    /\ routeRequest.body.image = CameraPhoto
    /\ routeRequest.body.smash = Null
    /\ ~routeRequest.apiKeyConfigured
    /\ routeResponse.status = 400

\* C20: the route calls the image generation API exactly for the requests
\* that are a form with both fields filled, a smash field that parses as
\* JSON and the credential configured; a form with a field missing is
\* answered 400 (fields required), one with the credential not configured
\* 500 (key not configured), one whose smash field does not parse 400
\* (invalid JSON), each without calling the API.
C20_Valid ==
    LET form == routeRequest.body IN
    /\ IsFormData(form)
    /\ form.image \notin {Null, EmptyString}
    /\ form.smash \notin {Null, EmptyString}
    /\ form.smash = JSONstringify(JSONparse(form.smash))
    /\ routeRequest.apiKeyConfigured

C20_Rejection ==
    LET form == routeRequest.body
        missing == \/ form.image \in {Null, EmptyString}
                   \/ form.smash \in {Null, EmptyString}
        rejected(status, error) ==
            /\ routeResponse.status = status
            /\ routeResponse.error = error
            /\ ~routeResponse.providerCalled
    IN  \/ missing /\ rejected(400, "Both image and smash data are required")
        \/ /\ ~missing
           /\ ~routeRequest.apiKeyConfigured
           /\ rejected(500, "OpenAI API key not configured")
        \/ /\ ~missing
           /\ form.smash = NotJSON
           /\ rejected(400, "Invalid JSON in smash data")

C20_ProviderOnlyAfterValidation ==
    Handled =>
        /\ routeResponse.providerCalled <=> C20_Valid
        /\ (IsFormData(routeRequest.body) /\ ~C20_Valid) => C20_Rejection

C20_Witness ==
    /\ Handled
    /\ IsFormData(routeRequest.body)
    /\ routeRequest.body.image = CameraPhoto
    /\ routeRequest.body.smash = NotJSON
    /\ routeRequest.apiKeyConfigured
    /\ routeResponse.status = 400
    /\ ~routeResponse.providerCalled

\* C21: when the image generation API fails (the call throws) or answers
\* without image data, the route answers 500 with the fixed error "Failed to
\* process face aging prediction"; it answers 200 only with a generated
\* image.
PredictionFailedError == "Failed to process face aging prediction"

C21_DownstreamFailureIsGeneric ==
    (Handled /\ routeResponse.providerCalled) =>
        /\ routeRequest.reply \in {"throws", "no b64_json"} =>
              /\ routeResponse.status = 500
              /\ routeResponse.error = PredictionFailedError
        /\ routeResponse.status = 200 => routeResponse.prediction # Null

C23_Sent(before, after) == BagCardinality(after) - BagCardinality(before)

C24_Failed ==
    \/ alertMsg' # NoAlert
    \/ \E r \in Pending(reads) : readerError(r)
    \/ toBlobFails
    \/ getUserMediaRejects
    \/ \E q \in Pending(fetches) : fetchRejects(q)

C24_CallbackOnAcquisitionAndRemoval ==
    [][ /\ \A r \in Pending(reads) :
              readerOnload(r) => notified' = <<ReadAsDataURL(r.file)>>
        /\ handleRemoveImage => notified' = <<EmptyString>>
        /\ C24_Failed => notified' = <<>>
        /\ notified' # <<>> =>
              \/ \E r \in Pending(reads) : readerOnload(r)
              \/ handleRemoveImage
              \/ (Mount \/ Reload) /\ notified' = <<uploadedImage'>>
      ]_vars

C24_Witness ==
    /\ mounted
    /\ uploadedFile = CameraPhoto
    /\ notified = <<ReadAsDataURL(CameraPhoto)>>
    /\ liveTracks = {}

\* C25: the loading flag does not stay set for ever.  While the mounted
\* component shows the flag, something that will clear it is still under
\* way: a read of a file it started, a camera request it started, or its
\* wait for the metadata of the video; once none is left the flag is FALSE
\* and the upload and camera buttons are enabled again.
C25_LoadingEnds ==
    (mounted /\ isLoading) =>
        \/ \E r \in Pending(reads) : r.own
        \/ \E c \in Pending(cameraReqs) : c.own
        \/ metaWait

\* C26: nothing is updated after the component is unmounted.  A step that
\* completes an operation whose instance is gone (a read, a camera request, a
\* conversion to a blob or a prediction request left in flight by the
\* unmount) leaves the component's state and localStorage as they were and
\* does not call onImageUpload.
C26_Completes(bag, after) ==
    \E x \in Pending(bag) : ~x.own /\ after = Remove(bag, x)

C26_NoUpdateAfterDisposal ==
    [][ ( /\ ~Reload
          /\ \/ C26_Completes(reads, reads')
             \/ C26_Completes(cameraReqs, cameraReqs')
             \/ C26_Completes(blobs, blobs')
             \/ C26_Completes(fetches, fetches') )
        => /\ UNCHANGED <<compState, localStorage>>
           /\ notified' = <<>>
      ]_vars

\* C27: in every reachable state localStorage holds both cachedImage and
\* cachedImageTimestamp or neither of them: reader.onload writes the two,
\* handleRemoveImage and the purge of an expired entry remove the two.
C27_BothOrNeither == (DOMAIN localStorage \cap CacheKeys) \in {{}, CacheKeys}

C27_Witness ==
    /\ DOMAIN localStorage = CacheKeys
    /\ localStorage["cachedImage"] = ReadAsDataURL(CameraPhoto)
    /\ ParseInt(localStorage["cachedImageTimestamp"]) = T0 + twentyFourHours

\* C28: the health record reaches the prompt as the dashboard holds it.  The
\* request that a click on the prediction button sends carries the record
\* held at that click, which is the one the recommendation service returned
\* when a visit has stored one and the record of smash.json otherwise; the
\* route parses it back to that record and writes that record into the
\* prompt; only the answer of a visit changes the record, no step of the
\* capture component does.
C28_Held == IF improvementData # Null THEN improvementData ELSE SmashData

C29_ResultImpliesAsset == faceAgingResult # Null => uploadedImage # Null

\* C30: a cancelled camera session yields no image.  When the conversion of
\* a captured frame completes for the mounted component after the session's
\* stream was stopped and its view closed, with no photo acquired or being
\* read, the completion starts no read of the photo, so that no image is
\* set, nothing is cached and onImageUpload is not called for it.
C30_SessionCancelled(b) ==
    /\ b.own
    /\ b.stream \notin liveTracks
    /\ ~showCamera
    /\ uploadedFile # CameraPhoto
    /\ \A r \in Pending(reads) : r.file # CameraPhoto

C30_NothingAfterCancel ==
    [][ \A b \in Pending(blobs) :
            (C30_SessionCancelled(b) /\ blobs' = Remove(blobs, b))
                => /\ reads' = reads
                   /\ UNCHANGED <<uploadedImage, uploadedFile, localStorage>>
                   /\ notified' = <<>>
      ]_vars

\* C31: the camera view is shown exactly when a stream is held, and the
\* stream held is live: showCamera is TRUE if and only if stream is not null,
\* and then its tracks have not been stopped.
C31_ViewIffStream ==
    /\ showCamera <=> stream # NoStream
    /\ stream # NoStream => stream \in liveTracks

C31_Witness ==
    /\ mounted
    /\ showCamera
    /\ stream \in liveTracks
    /\ videoReady
    /\ uploadedFile = CameraPhoto

\* C32: the route validates in the order fields, credential, JSON.  A form
\* with a field missing is answered 400 "Both image and smash data are
\* required" whatever the credential and the smash text; a form with both
\* fields whose smash field is not JSON is answered 500 "OpenAI API key not
\* configured" without the credential and 400 "Invalid JSON in smash data"
\* with it.
C32_Unparsable ==
    LET form == routeRequest.body IN
    /\ IsFormData(form)
    /\ ~FieldMissing(form)
    /\ ~ParsesAsJSON(form.smash)

C32_ValidationOrder ==
    Handled =>
        /\ C19_FieldMissing =>
              /\ routeResponse.status = 400
              /\ routeResponse.error = "Both image and smash data are required"
        /\ (C32_Unparsable /\ ~routeRequest.apiKeyConfigured) =>
              /\ routeResponse.status = 500
              /\ routeResponse.error = "OpenAI API key not configured"
        /\ (C32_Unparsable /\ routeRequest.apiKeyConfigured) =>
              /\ routeResponse.status = 400
              /\ routeResponse.error = "Invalid JSON in smash data"

C32_Witness ==
    /\ Handled
    /\ C32_Unparsable
    /\ ~routeRequest.apiKeyConfigured
    /\ routeResponse.status = 500
    /\ routeEarlier # Null
    /\ routeEarlier.request.body = routeRequest.body
    /\ routeEarlier.request.apiKeyConfigured
    /\ routeEarlier.response.status = 400

\* C33: a call of scheduleVisit clears the error when it starts.  When it
\* fails, by a fetch that rejects or by a status outside 2xx, the error is
\* the message of the failure, improvementData is what it was, isLoading is
\* FALSE and the caller gets the exception (handleVisitDoctor alerts the
\* failure).  When it succeeds improvementData is the answer, the error is
\* still null and isLoading is FALSE.
C33_Settles == BagCardinality(visits') < BagCardinality(visits)

C33_Failure ==
    \/ \E v \in Pending(visits) : visitRejects(v)
    \/ \E v \in Pending(visits) : visitResponds(v, "503")

C33_FailureAndSuccess ==
    [][ /\ BagCardinality(visits') > BagCardinality(visits) =>
              visitError' = Null /\ isVisitLoading'
        /\ C33_Settles => ~isVisitLoading'
        /\ C33_Failure =>
              /\ visitError' \in {Message("Failed to fetch"),
                                   Message("HTTP error! status: 503")}
              /\ improvementData' = improvementData
              /\ alertMsg' = VisitFailedAlert
        /\ \A v \in Pending(visits) :
              /\ visitRejects(v) => visitError' = Message("Failed to fetch")
              /\ visitResponds(v, "503") =>
                    visitError' = Message("HTTP error! status: 503")
              /\ visitResponds(v, "improved") =>
                    /\ improvementData' = ImprovedData
                    /\ visitError' = Null
                    /\ alertMsg' = VisitSucceededAlert
      ]_vars

C33_Witness ==
    /\ improvementData = ImprovedData
    /\ visitError = Message("HTTP error! status: 503")
    /\ ~isVisitLoading
    /\ visits = EmptyBag
    /\ alertMsg = VisitFailedAlert

\* C34: isLoading of the hook is TRUE exactly while a call of scheduleVisit
\* is outstanding, also when calls overlap: TRUE in every state with a call
\* started and not yet settled, FALSE in every state with none.
C34_LoadingWhileOutstanding == isVisitLoading <=> visits # EmptyBag

\* C35: the build process completes.  While BuildProcess is shown,
\* currentStep stays within 0..5 and changes only when the timeout fires, by
\* exactly one; onComplete is called by the firing of the last step's
\* timeout and once only; once isComplete holds no timeout is pending and no
\* effect is left to schedule one; leaving the page leaves no timeout
\* pending; and a build that was started reaches isComplete unless the page
\* is left before.
C35_Steps ==
    [][ /\ BuildShown' => currentStep' \in StepIndices
        /\ (BuildShown /\ BuildShown' /\ currentStep' # currentStep) =>
              /\ timerFires
              /\ currentStep' = currentStep + 1
        /\ onCompleteCalls' # onCompleteCalls =>
              \/ /\ timerFires
                 /\ timer = Len(steps) - 1
                 /\ onCompleteCalls = 0
                 /\ onCompleteCalls' = 1
              \/ ~BuildShown' /\ onCompleteCalls' = 0
        /\ isComplete' =>
              /\ onCompleteCalls' = 1
              /\ currentStep' = Len(steps) - 1
              /\ timer' = NoTimer
              /\ ~effectPending'
        /\ ~homeMounted' => timer' = NoTimer
      ]_vars

C35_Eventually == (BuildShown /\ ~isComplete) ~> (isComplete \/ ~BuildShown)

C35_BuildCompletes == C35_Steps /\ C35_Eventually

C35_Witness ==
    /\ BuildShown
    /\ isComplete
    /\ currentStep = 5
    /\ onCompleteCalls = 1
    /\ timer = NoTimer

\* C36: while BuildProcess is shown completedSteps has no duplicates and
\* holds the steps 0..currentStep once the effect of the current step has
\* run, and the steps 0..currentStep-1 between the render of a new
\* currentStep (the first render included) and its effect; the count shown
\* is at most 6 and progressValue at most 100.
C36_NoDuplicates ==
    \A i, j \in 1 .. Len(completedSteps) :
        completedSteps[i] = completedSteps[j] => i = j

C36_Completed == {completedSteps[i] : i \in 1 .. Len(completedSteps)}

C36_Bounded ==
    /\ Len(completedSteps) <= Len(steps)
    /\ progressValue <= 100

C36_CompletedSteps ==
    BuildShown =>
        /\ C36_NoDuplicates
        /\ C36_Completed = IF effectPending THEN 0 .. (currentStep - 1)
                                             ELSE 0 .. currentStep
        /\ C36_Bounded

\* C36 as stated: in every state of the build process completedSteps has no
\* duplicates and equals {0..currentStep}, so the count is at most 6 and the
\* progress at most 100.
C36_CompletedEqualsUpToCurrent ==
    BuildShown =>
        /\ C36_NoDuplicates
        /\ C36_Completed = 0 .. currentStep
        /\ C36_Bounded

C36_Witness ==
    /\ BuildShown
    /\ effectPending
    /\ currentStep = 3
    /\ completedSteps = <<0, 1, 2>>
    /\ progressValue = 50

\* C37: while the build runs and is not complete, the step at currentStep
\* is reported "current", every step before it "completed" and every step
\* after it "pending"; a step whose timeout has not fired yet is never
\* reported "completed".
C37_StepStatuses ==
    (BuildShown /\ ~isComplete) =>
        \A index \in StepIndices :
            getStepStatus(index) =
                IF index < currentStep THEN "completed"
                ELSE IF index = currentStep THEN "current"
                ELSE "pending"

====
